---- MODULE Spec2Model ----
(***************************************************************************)
(* Model of crates/maa-cli/src/run/preset/roguelike.rs:                    *)
(* RoguelikeParams::into_parameters_no_context, the resolution of the      *)
(* parsed roguelike options into the task's parameter object.              *)
(*                                                                         *)
(* One resolution is one behaviour: Init draws the parsed options, and     *)
(* each action is one section of into_parameters_no_context, in the        *)
(* order of the code.  A bail! ends the behaviour in pc = "failed", the    *)
(* final Ok(value) in pc = "done".                                         *)
(***************************************************************************)
EXTENDS Integers, Sequences, FiniteSets

VARIABLES opts, pc, value, order, warnings, err

vars == <<opts, pc, value, order, warnings, err>>

----------------------------------------------------------------------------
(* Bounds of the model                                                     *)

\* lists of names (foldartals, paradigms) have at most MaxListLen entries
MaxListLen == 2
\* an award string has at most MaxAwardLen lexemes (words, commas, blanks)
MaxAwardLen == 3
\* how far beyond the legal ranges the integer inputs are drawn
Slack == 1

----------------------------------------------------------------------------
(* enum Theme, #[repr(i8)]: the variants are their discriminants           *)

Phantom == 0
Mizuki == 1
Sami == 2
Sarkaz == 3
JieGarden == 4

Themes == {Phantom, Mizuki, Sami, Sarkaz, JieGarden}

to_str(theme) ==
    CASE theme = Phantom -> "Phantom"
      [] theme = Mizuki -> "Mizuki"
      [] theme = Sami -> "Sami"
      [] theme = Sarkaz -> "Sarkaz"
      [] theme = JieGarden -> "JieGarden"

----------------------------------------------------------------------------
(* Option<T>: None is the empty tuple, Some(v) the one-element tuple       *)

None == <<>>
Some(v) == <<v>>
IsSome(x) == Len(x) > 0
IsEmpty(list) == Len(list) = 0

----------------------------------------------------------------------------
(* The object under construction and the log.  value maps each key to its  *)
(* value, order lists the keys as they were inserted, warnings is what     *)
(* log::warn! received, err the message of the bail! that ended the call.  *)

NoErr == ""

NewCtx == [value |-> <<>>, order |-> <<>>, warnings |-> <<>>, err |-> NoErr]

Put(m, k, v) == [x \in (DOMAIN m) \cup {k} |-> IF x = k THEN v ELSE m[x]]

\* value.insert(k, v) and the `k => v` form of insert!/object!; the
\* `k => list?` form used for the Vec<String> fields inserts the list as an
\* array of its strings, in order (tests parse_roguellike_params and
\* test_sami_advanced_params)
Insert(c, k, v) ==
    [c EXCEPT !.value = Put(@, k, v),
              !.order = IF k \in DOMAIN c.value THEN @ ELSE Append(@, k)]

\* the `k =>? v` form of insert!/object!: nothing is inserted for None
InsertOpt(c, k, opt) == IF IsSome(opt) THEN Insert(c, k, opt[1]) ELSE c

Warn(c, msg) == [c EXCEPT !.warnings = Append(@, msg)]

Bail(c, msg) == [c EXCEPT !.err = msg]

Failed(c) == c.err # NoErr

----------------------------------------------------------------------------
(* Messages                                                                *)

ErrMode5 == "Mode 5 is only available in Sami theme"
ErrMode20001 == "Mode 20001 is only available in JieGarden theme"
ErrModeRange == "Mode must be in range between 0 and 7, or 20001"
ErrParadigms == "At least one expected collapsal paradigm is required when mode 5 is enabled"
ErrSeed == "Seed must be provided when start_with_seed is enabled"
ErrTargetRange == "find_playtime_target must be between 1 and 3"
ErrTargetMissing == "find_playtime_target is required for JieGarden theme with mode 20001"

WarnStartWithSeed == <<"start_with_seed is only meaningful for Sarkaz theme with mode 1, ignoring">>
WarnSeed == <<"seed is provided but start_with_seed is not enabled, ignoring">>
WarnCollectible == <<"Collectible mode parameters are only meaningful for mode 4, ignoring">>
WarnMonthly == <<"Monthly squad parameters are only meaningful for mode 6, ignoring">>
WarnDeep == <<"Deep exploration parameters are only meaningful for mode 7, ignoring">>
WarnDifficulty == <<"Difficulty is not valid for Phantom theme, ignored">>
\* the format string and the award it is filled with
WarnAward(award) == <<"Unknown collectible start award: '{}', ignoring", award>>

----------------------------------------------------------------------------
(* The sections of into_parameters_no_context.  Each takes the options o   *)
(* and the context c reached so far and gives the context after it.        *)

\* CheckMode with the range arm tried before the two guarded arms
CheckMode_RangeFirst(o, c) ==
    IF o.mode \in 0..7 \/ o.mode = 20001 THEN c
    ELSE IF o.mode = 5 /\ o.theme # Sami THEN Bail(c, ErrMode5)
    ELSE IF o.mode = 20001 /\ o.theme # JieGarden THEN Bail(c, ErrMode20001)
    ELSE Bail(c, ErrModeRange)

\* CheckMode with the range written 0..=8
CheckMode_UpTo8(o, c) ==
    IF o.mode = 5 /\ o.theme # Sami THEN Bail(c, ErrMode5)
    ELSE IF o.mode = 20001 /\ o.theme # JieGarden THEN Bail(c, ErrMode20001)
    ELSE IF o.mode \in 0..8 \/ o.mode = 20001 THEN c
    ELSE Bail(c, ErrModeRange)

\* CheckMode with the seed validation moved above the match
CheckMode_AfterSeedValidation(o, c) ==
    LET c1 == IF o.start_with_seed /\ (o.theme # Sarkaz \/ o.mode # 1)
              THEN Warn(c, WarnStartWithSeed) ELSE c
    IN  IF o.mode = 5 /\ o.theme # Sami THEN Bail(c1, ErrMode5)
        ELSE IF o.mode = 20001 /\ o.theme # JieGarden THEN Bail(c1, ErrMode20001)
        ELSE IF o.mode \in 0..7 \/ o.mode = 20001 THEN c
        ELSE Bail(c1, ErrModeRange)

\* match mode { 5 if .. , 20001 if .. , 0..=7 | 20001 , _ }
CheckMode(o, c) ==
    IF o.mode = 5 /\ o.theme # Sami THEN Bail(c, ErrMode5)
    ELSE IF o.mode = 20001 /\ o.theme # JieGarden THEN Bail(c, ErrMode20001)
    ELSE IF o.mode \in 0..7 \/ o.mode = 20001 THEN c
    ELSE Bail(c, ErrModeRange)

\* Validate seed parameters
ValidateSeed(o, c) ==
    LET c1 == IF o.start_with_seed /\ (o.theme # Sarkaz \/ o.mode # 1)
              THEN Warn(c, WarnStartWithSeed) ELSE c
    IN  IF IsSome(o.seed) /\ ~o.start_with_seed THEN Warn(c1, WarnSeed) ELSE c1

\* Validate collectible mode parameters
ValidateCollectible(o, c) ==
    IF o.mode # 4
       /\ (IsSome(o.collectible_squad) \/ o.collectible_shopping
           \/ IsSome(o.collectible_start_awards))
    THEN Warn(c, WarnCollectible) ELSE c

\* Validate monthly squad parameters
ValidateMonthly(o, c) ==
    IF o.mode # 6 /\ (o.monthly_squad_auto_iterate \/ o.monthly_squad_check_comms)
    THEN Warn(c, WarnMonthly) ELSE c

\* Validate deep exploration parameters
ValidateDeep(o, c) ==
    IF o.mode # 7 /\ o.deep_exploration_auto_iterate THEN Warn(c, WarnDeep) ELSE c

\* BaseObject with start_count written `=>` instead of `=>?`
BaseObject_CountAlways(o, c) ==
    LET fresh == [c EXCEPT !.value = <<>>, !.order = <<>>]
        v1 == Insert(fresh, "theme", to_str(o.theme))
        v2 == Insert(v1, "mode", o.mode)
        v3 == InsertOpt(v2, "squad", o.squad)
        v4 == InsertOpt(v3, "roles", o.roles)
        v5 == InsertOpt(v4, "core_char", o.core_char)
        v6 == Insert(v5, "start_count", o.start_count)
        v7 == Insert(v6, "stop_at_final_boss", o.stop_at_final_boss)
        v8 == Insert(v7, "stop_when_deposit_full", o.stop_when_deposit_full)
    IN  Insert(v8, "stop_at_max_level", o.stop_when_level_max)

\* let mut value = object!( ... )
BaseObject(o, c) ==
    LET fresh == [c EXCEPT !.value = <<>>, !.order = <<>>]
        v1 == Insert(fresh, "theme", to_str(o.theme))
        v2 == Insert(v1, "mode", o.mode)
        v3 == InsertOpt(v2, "squad", o.squad)
        v4 == InsertOpt(v3, "roles", o.roles)
        v5 == InsertOpt(v4, "core_char", o.core_char)
        v6 == InsertOpt(v5, "start_count", o.start_count)
        v7 == Insert(v6, "stop_at_final_boss", o.stop_at_final_boss)
        v8 == Insert(v7, "stop_when_deposit_full", o.stop_when_deposit_full)
    IN  Insert(v8, "stop_at_max_level", o.stop_when_level_max)

\* Difficulty without the Phantom branch
Difficulty_AnyTheme(o, c) == InsertOpt(c, "difficulty", o.difficulty)

\* Difficulty setting (not valid for Phantom theme)
Difficulty(o, c) ==
    IF o.theme = Phantom
    THEN IF IsSome(o.difficulty) THEN Warn(c, WarnDifficulty) ELSE c
    ELSE InsertOpt(c, "difficulty", o.difficulty)

\* Investment with the count inserted before the disable_investment test
Investment_CountFirst(o, c) ==
    LET c0 == InsertOpt(c, "investments_count", o.investments_count)
    IN  IF o.disable_investment
        THEN Insert(c0, "investment_enabled", FALSE)
        ELSE LET v1 == Insert(c0, "investment_enabled", TRUE)
                 v3 == Insert(v1, "investment_with_more_score",
                              o.investment_with_more_score)
             IN  Insert(v3, "stop_when_investment_full",
                        ~o.no_stop_when_investment_full)

\* Investment mode settings
Investment(o, c) ==
    IF o.disable_investment
    THEN Insert(c, "investment_enabled", FALSE)
    ELSE LET v1 == Insert(c, "investment_enabled", TRUE)
             v2 == InsertOpt(v1, "investments_count", o.investments_count)
             v3 == Insert(v2, "investment_with_more_score", o.investment_with_more_score)
         IN  Insert(v3, "stop_when_investment_full", ~o.no_stop_when_investment_full)

\* Support unit settings
Support(o, c) ==
    Insert(Insert(c, "use_support", o.use_support),
           "use_nonfriend_support", o.use_nonfriend_support)

\* Elite with the secondary flag written on its own
Elite_SecondaryAlone(o, c) ==
    LET c1 == IF o.start_with_elite_two
              THEN Insert(c, "start_with_elite_two", TRUE) ELSE c
    IN  IF o.start_with_elite_two \/ o.only_start_with_elite_two
        THEN Insert(c1, "only_start_with_elite_two", o.only_start_with_elite_two)
        ELSE c1

\* Elite settings
Elite(o, c) ==
    IF o.start_with_elite_two
    THEN Insert(Insert(c, "start_with_elite_two", TRUE),
                "only_start_with_elite_two", o.only_start_with_elite_two)
    ELSE c

----------------------------------------------------------------------------
(* Collectible start awards.  An award string is a sequence of lexemes: a  *)
(* word (a maximal run of characters other than ',' and blank), a comma    *)
(* "," or a blank " ".  Two adjacent words read as one longer word, which  *)
(* is none of the names of reward_map.                                     *)

Comma == ","
Blank == " "

\* reward_map with "idea" kept as its own key
reward_map_IdeaKept ==
    << <<"hot_water", "hot_water">>,
       <<"shield", "shield">>,
       <<"ingot", "ingot">>,
       <<"hope", "hope">>,
       <<"random", "random">>,
       <<"key", "key">>,
       <<"dice", "dice">>,
       <<"idea", "idea">>,
       <<"ticket", "ticket">> >>

reward_map ==
    << <<"hot_water", "hot_water">>,
       <<"shield", "shield">>,
       <<"ingot", "ingot">>,
       <<"hope", "hope">>,
       <<"random", "random">>,
       <<"key", "key">>,
       <<"dice", "dice">>,
       <<"idea", "ideas">>,
       <<"ticket", "ticket">> >>

\* awards.split(','): the pieces between the commas, empty pieces included
RECURSIVE Split(_)
Split(s) ==
    IF \A i \in 1..Len(s) : s[i] # Comma
    THEN <<s>>
    ELSE LET i == CHOOSE k \in 1..Len(s) :
                      s[k] = Comma /\ \A j \in 1..(k - 1) : s[j] # Comma
         IN  <<SubSeq(s, 1, i - 1)>> \o Split(SubSeq(s, i + 1, Len(s)))

RECURSIVE TrimStart(_)
TrimStart(s) == IF Len(s) > 0 /\ s[1] = Blank THEN TrimStart(Tail(s)) ELSE s

RECURSIVE TrimEnd(_)
TrimEnd(s) ==
    IF Len(s) > 0 /\ s[Len(s)] = Blank THEN TrimEnd(SubSeq(s, 1, Len(s) - 1)) ELSE s

\* award.trim()
Trim(s) == TrimEnd(TrimStart(s))

\* reward_map.iter().find(|(name, _)| *name == award): the indices that match
Find(award) == {i \in 1..Len(reward_map) : award = <<reward_map[i][1]>>}

\* the body of `for award in awards.split(',')`, on the accumulator
\* [start_rewards, valid_count, c]
AwardStep(acc, piece) ==
    LET award == Trim(piece)
        found == Find(award)
    IN  IF found # {}
        THEN LET i == CHOOSE k \in found : \A j \in found : k <= j
             IN  [acc EXCEPT !.start_rewards = Put(@, reward_map[i][2], TRUE),
                             !.valid_count = @ + 1]
        ELSE IF ~IsEmpty(award)
        THEN [acc EXCEPT !.c = Warn(@, WarnAward(award))]
        ELSE acc

RECURSIVE AwardLoop(_, _)
AwardLoop(acc, pieces) ==
    IF Len(pieces) = 0 THEN acc
    ELSE AwardLoop(AwardStep(acc, Head(pieces)), Tail(pieces))

\* if let Some(awards) = &self.collectible_start_awards { ... }
StartAwards(o, c) ==
    IF IsSome(o.collectible_start_awards)
    THEN LET acc == AwardLoop([start_rewards |-> <<>>, valid_count |-> 0, c |-> c],
                               Split(o.collectible_start_awards[1]))
         IN  IF acc.valid_count > 0
             THEN Insert(acc.c, "collectible_mode_start_list", acc.start_rewards)
             ELSE acc.c
    ELSE c

\* Collectible without the mode == 4 test
Collectible_AnyMode(o, c) ==
    StartAwards(o, Insert(InsertOpt(c, "collectible_mode_squad", o.collectible_squad),
                          "collectible_mode_shopping", o.collectible_shopping))

\* Collectible mode settings
Collectible(o, c) ==
    IF o.mode = 4
    THEN StartAwards(o, Insert(InsertOpt(c, "collectible_mode_squad", o.collectible_squad),
                               "collectible_mode_shopping", o.collectible_shopping))
    ELSE c

\* Monthly squad mode settings
Monthly(o, c) ==
    IF o.mode = 6
    THEN Insert(Insert(c, "monthly_squad_auto_iterate", o.monthly_squad_auto_iterate),
                "monthly_squad_check_comms", o.monthly_squad_check_comms)
    ELSE c

\* Deep exploration mode settings
Deep(o, c) ==
    IF o.mode = 7
    THEN Insert(c, "deep_exploration_auto_iterate", o.deep_exploration_auto_iterate)
    ELSE c

----------------------------------------------------------------------------
(* Theme specific parameters: match theme { ... }                          *)

\* First floor foldartal collection in collectible mode
FirstFloorFoldartal(o, c) ==
    IF o.mode = 4 /\ o.sami_first_floor_foldartal
       /\ ~IsEmpty(o.sami_first_floor_foldartals)
    THEN Insert(c, "first_floor_foldartal", o.sami_first_floor_foldartals)
    ELSE c

\* StartFoldartal with the general list appended to the squad2 list
StartFoldartal_Merged(o, c) ==
    IF o.sami_new_squad2_starting_foldartal
       /\ ~IsEmpty(o.sami_new_squad2_starting_foldartals)
    THEN Insert(c, "start_foldartal_list",
                o.sami_new_squad2_starting_foldartals \o o.start_foldartals)
    ELSE IF ~IsEmpty(o.start_foldartals)
    THEN Insert(c, "start_foldartal_list", o.start_foldartals)
    ELSE c

\* Starting foldartal for life squad (takes precedence over start_foldartals)
StartFoldartal(o, c) ==
    IF o.sami_new_squad2_starting_foldartal
       /\ ~IsEmpty(o.sami_new_squad2_starting_foldartals)
    THEN Insert(c, "start_foldartal_list", o.sami_new_squad2_starting_foldartals)
    ELSE IF ~IsEmpty(o.start_foldartals)
    THEN Insert(c, "start_foldartal_list", o.start_foldartals)
    ELSE c

\* CollapsalParadigms without the is_empty test
CollapsalParadigms_Unchecked(o, c) ==
    IF o.mode = 5
    THEN Insert(Insert(Insert(c, "check_collapsal_paradigms", TRUE),
                       "double_check_collapsal_paradigms", TRUE),
                "expected_collapsal_paradigms", o.expected_collapsal_paradigms)
    ELSE c

\* if mode == 5 { ... }
CollapsalParadigms(o, c) ==
    IF o.mode = 5
    THEN IF IsEmpty(o.expected_collapsal_paradigms)
         THEN Bail(c, ErrParadigms)
         ELSE Insert(Insert(Insert(c, "check_collapsal_paradigms", TRUE),
                            "double_check_collapsal_paradigms", TRUE),
                     "expected_collapsal_paradigms", o.expected_collapsal_paradigms)
    ELSE c

\* Theme::Sami => { ... }
SamiParams(o, c) ==
    CollapsalParadigms(o,
        StartFoldartal(o,
            FirstFloorFoldartal(o, Insert(c, "use_foldartal", o.use_foldartal))))

\* SarkazSeed keyed on the seed instead of the flag
SarkazSeed_SeedFirst(o, c) ==
    IF IsSome(o.seed)
    THEN Insert(c, "start_with_seed", o.seed[1])
    ELSE IF o.start_with_seed THEN Bail(c, ErrSeed) ELSE c

\* Theme::Sarkaz if mode == 1 => { ... }
SarkazSeed(o, c) ==
    IF o.start_with_seed
    THEN IF IsSome(o.seed)
         THEN Insert(c, "start_with_seed", o.seed[1])
         ELSE Bail(c, ErrSeed)
    ELSE c

\* FindPlaytime with the range written 0..=3
FindPlaytime_FromZero(o, c) ==
    IF IsSome(o.find_playtime_target)
    THEN IF ~(o.find_playtime_target[1] \in 0..3)
         THEN Bail(c, ErrTargetRange)
         ELSE Insert(c, "find_playTime_target", o.find_playtime_target[1])
    ELSE Bail(c, ErrTargetMissing)

\* Theme::JieGarden if mode == 20001 => { ... }
FindPlaytime(o, c) ==
    IF IsSome(o.find_playtime_target)
    THEN IF ~(o.find_playtime_target[1] \in 1..3)
         THEN Bail(c, ErrTargetRange)
         ELSE Insert(c, "find_playTime_target", o.find_playtime_target[1])
    ELSE Bail(c, ErrTargetMissing)

\* ThemeSpecific with the Sarkaz arm written without its mode guard
ThemeSpecific_SarkazAnyMode(o, c) ==
    CASE o.theme = Mizuki -> Insert(c, "refresh_trader_with_dice", o.refresh_trader_with_dice)
      [] o.theme = Sami -> SamiParams(o, c)
      [] o.theme = Sarkaz -> SarkazSeed(o, c)
      [] o.theme = JieGarden /\ o.mode = 20001 -> FindPlaytime(o, c)
      [] OTHER -> c

\* ThemeSpecific with the JieGarden arm written without its mode guard
ThemeSpecific_JieGardenAnyMode(o, c) ==
    CASE o.theme = Mizuki -> Insert(c, "refresh_trader_with_dice", o.refresh_trader_with_dice)
      [] o.theme = Sami -> SamiParams(o, c)
      [] o.theme = Sarkaz /\ o.mode = 1 -> SarkazSeed(o, c)
      [] o.theme = JieGarden -> FindPlaytime(o, c)
      [] OTHER -> c

ThemeSpecific(o, c) ==
    CASE o.theme = Mizuki -> Insert(c, "refresh_trader_with_dice", o.refresh_trader_with_dice)
      [] o.theme = Sami -> SamiParams(o, c)
      [] o.theme = Sarkaz /\ o.mode = 1 -> SarkazSeed(o, c)
      [] o.theme = JieGarden /\ o.mode = 20001 -> FindPlaytime(o, c)
      [] OTHER -> c

----------------------------------------------------------------------------
(* The whole call, as a function of the options: the sections in the order *)
(* of the code, the first bail! ending it.                                 *)

Sections ==
    <<"check_mode", "validate_seed", "validate_collectible", "validate_monthly",
      "validate_deep", "base_object", "difficulty", "investment", "support",
      "elite", "collectible", "monthly", "deep", "theme_specific">>

Section(label, o, c) ==
    CASE label = "check_mode" -> CheckMode(o, c)
      [] label = "validate_seed" -> ValidateSeed(o, c)
      [] label = "validate_collectible" -> ValidateCollectible(o, c)
      [] label = "validate_monthly" -> ValidateMonthly(o, c)
      [] label = "validate_deep" -> ValidateDeep(o, c)
      [] label = "base_object" -> BaseObject(o, c)
      [] label = "difficulty" -> Difficulty(o, c)
      [] label = "investment" -> Investment(o, c)
      [] label = "support" -> Support(o, c)
      [] label = "elite" -> Elite(o, c)
      [] label = "collectible" -> Collectible(o, c)
      [] label = "monthly" -> Monthly(o, c)
      [] label = "deep" -> Deep(o, c)
      [] label = "theme_specific" -> ThemeSpecific(o, c)

RECURSIVE RunFrom(_, _, _)
RunFrom(i, o, c) ==
    IF i > Len(Sections) \/ Failed(c) THEN c
    ELSE RunFrom(i + 1, o, Section(Sections[i], o, c))

\* Result<MAAValue>: Err carries the message alone, Ok the object
into_parameters_no_context(o) ==
    LET c == RunFrom(1, o, NewCtx)
    IN  IF Failed(c)
        THEN [ok |-> FALSE, err |-> c.err, value |-> <<>>, order |-> <<>>,
              warnings |-> c.warnings]
        ELSE [ok |-> TRUE, err |-> NoErr, value |-> c.value, order |-> c.order,
              warnings |-> c.warnings]

----------------------------------------------------------------------------
(* The parsed options.  Default is what clap gives when only the theme and *)
(* the mode are on the command line, Loaded has every flag set and every   *)
(* option supplied.                                                        *)

TestAwards1 == <<"hot_water", Comma, "hope", Comma, "idea">>
TestAwards2 == <<"hot_water", Comma, "invalid", Comma, "shield">>

Default(t, m) ==
    [theme |-> t, mode |-> m,
     squad |-> None, core_char |-> None, roles |-> None, start_count |-> None,
     difficulty |-> None,
     disable_investment |-> FALSE, investment_with_more_score |-> FALSE,
     investments_count |-> None, no_stop_when_investment_full |-> FALSE,
     use_support |-> FALSE, use_nonfriend_support |-> FALSE,
     start_with_elite_two |-> FALSE, only_start_with_elite_two |-> FALSE,
     stop_at_final_boss |-> FALSE, stop_when_deposit_full |-> FALSE,
     stop_when_level_max |-> FALSE,
     refresh_trader_with_dice |-> FALSE,
     use_foldartal |-> FALSE, start_foldartals |-> <<>>,
     expected_collapsal_paradigms |-> <<>>,
     sami_first_floor_foldartal |-> FALSE, sami_first_floor_foldartals |-> <<>>,
     sami_new_squad2_starting_foldartal |-> FALSE,
     sami_new_squad2_starting_foldartals |-> <<>>,
     start_with_seed |-> FALSE, seed |-> None,
     find_playtime_target |-> None,
     collectible_squad |-> None, collectible_shopping |-> FALSE,
     collectible_start_awards |-> None,
     monthly_squad_auto_iterate |-> TRUE, monthly_squad_check_comms |-> TRUE,
     deep_exploration_auto_iterate |-> TRUE]

Loaded(t, m) ==
    [theme |-> t, mode |-> m,
     squad |-> Some("squad"), core_char |-> Some("char"), roles |-> Some("roles"),
     start_count |-> Some(100),
     difficulty |-> Some(15),
     disable_investment |-> FALSE, investment_with_more_score |-> TRUE,
     investments_count |-> Some(100), no_stop_when_investment_full |-> TRUE,
     use_support |-> TRUE, use_nonfriend_support |-> TRUE,
     start_with_elite_two |-> TRUE, only_start_with_elite_two |-> TRUE,
     stop_at_final_boss |-> TRUE, stop_when_deposit_full |-> TRUE,
     stop_when_level_max |-> TRUE,
     refresh_trader_with_dice |-> TRUE,
     use_foldartal |-> TRUE, start_foldartals |-> <<"y">>,
     expected_collapsal_paradigms |-> <<"x", "y">>,
     sami_first_floor_foldartal |-> TRUE, sami_first_floor_foldartals |-> <<"x">>,
     sami_new_squad2_starting_foldartal |-> TRUE,
     sami_new_squad2_starting_foldartals |-> <<"x">>,
     start_with_seed |-> TRUE, seed |-> Some("123456"),
     find_playtime_target |-> Some(2),
     collectible_squad |-> Some("squad2"), collectible_shopping |-> TRUE,
     collectible_start_awards |-> Some(TestAwards2),
     monthly_squad_auto_iterate |-> TRUE, monthly_squad_check_comms |-> TRUE,
     deep_exploration_auto_iterate |-> TRUE]

SeqsUpTo(S, n) == UNION {[1..k -> S] : k \in 0..n}

Modes == ((0 - Slack)..(7 + Slack)) \cup ((20001 - Slack)..(20001 + Slack))
Targets == {None} \cup {Some(n) : n \in (1 - Slack)..(3 + Slack)}
Names == {"x", "y"}
Lists == SeqsUpTo(Names, MaxListLen)
OptStr == {None, Some("s")}
OptCount == {None, Some(100)}
Difficulties == {None, Some(0), Some(15)}
Seeds == {None, Some("123456")}

AwardWords == {reward_map[i][1] : i \in 1..Len(reward_map)} \cup {"invalid"}
AwardStrings ==
    SeqsUpTo({"hot_water", "idea", "invalid", Comma, Blank}, MaxAwardLen)
    \cup {<<w>> : w \in AwardWords}
    \cup {<<w, Comma, v>> : w, v \in AwardWords}
    \cup {TestAwards1, TestAwards2}
FewAwards == {None, Some(TestAwards2), Some(<<"idea">>), Some(<<"invalid">>)}

\* the options that differ from b in one group of flags
Variations(b) ==
    {[b EXCEPT !.squad = s, !.core_char = k, !.roles = r, !.start_count = n] :
        s \in OptStr, k \in OptStr, r \in OptStr, n \in OptCount}
    \cup {[b EXCEPT !.difficulty = d] : d \in Difficulties}
    \cup {[b EXCEPT !.disable_investment = d, !.investment_with_more_score = s,
                    !.investments_count = n, !.no_stop_when_investment_full = f] :
            d \in BOOLEAN, s \in BOOLEAN, n \in OptCount, f \in BOOLEAN}
    \cup {[b EXCEPT !.use_support = u, !.use_nonfriend_support = n] :
            u \in BOOLEAN, n \in BOOLEAN}
    \cup {[b EXCEPT !.start_with_elite_two = e, !.only_start_with_elite_two = n] :
            e \in BOOLEAN, n \in BOOLEAN}
    \cup {[b EXCEPT !.stop_at_final_boss = f, !.stop_when_deposit_full = d,
                    !.stop_when_level_max = l] :
            f \in BOOLEAN, d \in BOOLEAN, l \in BOOLEAN}
    \cup {[b EXCEPT !.refresh_trader_with_dice = r, !.use_foldartal = u] :
            r \in BOOLEAN, u \in BOOLEAN}
    \cup {[b EXCEPT !.sami_first_floor_foldartal = f,
                    !.sami_first_floor_foldartals = l] : f \in BOOLEAN, l \in Lists}
    \cup {[b EXCEPT !.expected_collapsal_paradigms = l] : l \in Lists}
    \cup {[b EXCEPT !.start_with_seed = f, !.seed = s] : f \in BOOLEAN, s \in Seeds}
    \cup {[b EXCEPT !.find_playtime_target = t] : t \in Targets}
    \cup {[b EXCEPT !.collectible_squad = s, !.collectible_shopping = f,
                    !.collectible_start_awards = a] :
            s \in OptStr, f \in BOOLEAN, a \in FewAwards}
    \cup {[b EXCEPT !.monthly_squad_auto_iterate = a, !.monthly_squad_check_comms = k,
                    !.deep_exploration_auto_iterate = d] :
            a \in BOOLEAN, k \in BOOLEAN, d \in BOOLEAN}

\* the starting foldartal lists, in full
FoldartalVariations(b) ==
    {[b EXCEPT !.sami_new_squad2_starting_foldartal = f,
               !.sami_new_squad2_starting_foldartals = l1,
               !.start_foldartals = l2] : f \in BOOLEAN, l1 \in Lists, l2 \in Lists}

\* the award strings, in full
AwardVariations(b) ==
    {[b EXCEPT !.collectible_start_awards = Some(a)] : a \in AwardStrings}

Backgrounds(T, M) == {Default(t, m) : t \in T, m \in M} \cup {Loaded(t, m) : t \in T, m \in M}

\* the options a call is made with
IsInput(o) ==
    \/ \E b \in Backgrounds(Themes, Modes) : o \in Variations(b)
    \/ \E b \in Backgrounds({Sami, Sarkaz}, {0, 4, 5}) : o \in FoldartalVariations(b)
    \/ \E b \in Backgrounds({Mizuki, Sami}, {4, 6}) : o \in AwardVariations(b)

----------------------------------------------------------------------------
(* The state machine                                                       *)

Ctx == [value |-> value, order |-> order, warnings |-> warnings, err |-> err]

\* the context after a section, and where the call goes from there
Advance(c, next) ==
    /\ value' = c.value
    /\ order' = c.order
    /\ warnings' = c.warnings
    /\ err' = c.err
    /\ pc' = IF Failed(c) THEN "failed" ELSE next
    /\ UNCHANGED opts

Init ==
    /\ IsInput(opts)
    /\ pc = "check_mode"
    /\ value = NewCtx.value
    /\ order = NewCtx.order
    /\ warnings = NewCtx.warnings
    /\ err = NewCtx.err

DoCheckMode ==
    pc = "check_mode" /\ Advance(CheckMode(opts, Ctx), "validate_seed")

DoValidateSeed ==
    pc = "validate_seed" /\ Advance(ValidateSeed(opts, Ctx), "validate_collectible")

DoValidateCollectible ==
    pc = "validate_collectible"
    /\ Advance(ValidateCollectible(opts, Ctx), "validate_monthly")

DoValidateMonthly ==
    pc = "validate_monthly" /\ Advance(ValidateMonthly(opts, Ctx), "validate_deep")

DoValidateDeep ==
    pc = "validate_deep" /\ Advance(ValidateDeep(opts, Ctx), "base_object")

DoBaseObject ==
    pc = "base_object" /\ Advance(BaseObject(opts, Ctx), "difficulty")

DoDifficulty ==
    pc = "difficulty" /\ Advance(Difficulty(opts, Ctx), "investment")

DoInvestment ==
    pc = "investment" /\ Advance(Investment(opts, Ctx), "support")

DoSupport ==
    pc = "support" /\ Advance(Support(opts, Ctx), "elite")

DoElite ==
    pc = "elite" /\ Advance(Elite(opts, Ctx), "collectible")

DoCollectible ==
    pc = "collectible" /\ Advance(Collectible(opts, Ctx), "monthly")

DoMonthly ==
    pc = "monthly" /\ Advance(Monthly(opts, Ctx), "deep")

DoDeep ==
    pc = "deep" /\ Advance(Deep(opts, Ctx), "theme_specific")

DoThemeSpecific ==
    pc = "theme_specific" /\ Advance(ThemeSpecific(opts, Ctx), "return")

\* Ok(value)
DoReturn ==
    /\ pc = "return"
    /\ pc' = "done"
    /\ UNCHANGED <<opts, value, order, warnings, err>>

Next ==
    \/ DoCheckMode
    \/ DoValidateSeed
    \/ DoValidateCollectible
    \/ DoValidateMonthly
    \/ DoValidateDeep
    \/ DoBaseObject
    \/ DoDifficulty
    \/ DoInvestment
    \/ DoSupport
    \/ DoElite
    \/ DoCollectible
    \/ DoMonthly
    \/ DoDeep
    \/ DoThemeSpecific
    \/ DoReturn

Spec == Init /\ [][Next]_vars

----------------------------------------------------------------------------
(* Properties                                                              *)

Done == pc = "done"
Bailed == pc = "failed"
Has(k) == k \in DOMAIN value
Logged(msg) == \E i \in 1..Len(warnings) : warnings[i] = msg
LegalModes == (0..7) \cup {20001}

\* C1: a mode of 5 under a theme other than Sami, and a mode of 20001 under a
\* theme other than JieGarden, fail, whatever the other options are, and with
\* the theme-restriction error of that mode, not with the range error.
C1_ThemeRestrictedModesFail ==
    pc # "check_mode" =>
        /\ (opts.mode = 5 /\ opts.theme # Sami) => (Bailed /\ err = ErrMode5)
        /\ (opts.mode = 20001 /\ opts.theme # JieGarden)
               => (Bailed /\ err = ErrMode20001)

C1_Witness ==
    /\ Bailed
    /\ opts.theme = Sarkaz
    /\ opts.mode = 20001
    /\ opts.find_playtime_target = Some(1)
    /\ err = ErrMode20001

\* C2: a mode that is neither in 0..=7 nor 20001 fails with the range error
\* under every theme, and the mode of a returned map is in 0..=7 or is 20001.
C2_ModeOutOfRangeFails ==
    /\ (pc # "check_mode" /\ opts.mode \notin LegalModes)
           => (Bailed /\ err = ErrModeRange)
    /\ Done => (Has("mode") /\ value["mode"] \in LegalModes)

C2_Witness ==
    /\ Bailed
    /\ opts.mode = 8
    /\ opts.theme = JieGarden
    /\ err = ErrModeRange

\* C3: JieGarden with mode 20001 returns a map exactly when the target is 1, 2
\* or 3, and then find_playTime_target is that target; a target outside 1..=3
\* and a missing target are fatal.
C3_FindPlaytimeTarget ==
    (opts.theme = JieGarden /\ opts.mode = 20001) =>
        LET t == opts.find_playtime_target
        IN  /\ Done => /\ IsSome(t)
                       /\ t[1] \in {1, 2, 3}
                       /\ Has("find_playTime_target")
                       /\ value["find_playTime_target"] = t[1]
            /\ Bailed => IF IsSome(t)
                         THEN t[1] \notin {1, 2, 3} /\ err = ErrTargetRange
                         ELSE err = ErrTargetMissing

C3_Witness ==
    /\ Done
    /\ opts.theme = JieGarden
    /\ opts.mode = 20001
    /\ opts.find_playtime_target = Some(3)
    /\ value["find_playTime_target"] = 3

ParadigmKeys ==
    {"check_collapsal_paradigms", "double_check_collapsal_paradigms",
     "expected_collapsal_paradigms"}

\* C5: Sami with mode 5 fails exactly when the paradigm list is empty; otherwise
\* the map has both check flags true and the list as given, in its order.  Sami
\* with another mode emits none of the three keys.
C5_CollapsalParadigms ==
    opts.theme = Sami =>
        LET l == opts.expected_collapsal_paradigms
        IN  /\ (opts.mode = 5 /\ Bailed) => (IsEmpty(l) /\ err = ErrParadigms)
            /\ (opts.mode = 5 /\ Done) =>
                   /\ ~IsEmpty(l)
                   /\ ParadigmKeys \subseteq DOMAIN value
                   /\ value["check_collapsal_paradigms"] = TRUE
                   /\ value["double_check_collapsal_paradigms"] = TRUE
                   /\ value["expected_collapsal_paradigms"] = l
            /\ (opts.mode # 5 /\ Done) => ParadigmKeys \cap DOMAIN value = {}

C5_Witness ==
    /\ Done
    /\ opts.theme = Sami
    /\ opts.mode = 5
    /\ opts.expected_collapsal_paradigms = <<"y", "x">>
    /\ value["expected_collapsal_paradigms"] = <<"y", "x">>
    /\ value["check_collapsal_paradigms"] = TRUE

\* C6: for Sami the start_foldartal_list key is the squad2 list when the squad2
\* flag is set and that list is non-empty, whatever the general list holds;
\* otherwise it is the general list when that is non-empty; otherwise the key
\* is absent.  The two lists are never merged.
C6_StartFoldartalPrecedence ==
    (Done /\ opts.theme = Sami) =>
        LET L1 == opts.sami_new_squad2_starting_foldartals
            L2 == opts.start_foldartals
        IN  IF opts.sami_new_squad2_starting_foldartal /\ Len(L1) > 0
            THEN Has("start_foldartal_list") /\ value["start_foldartal_list"] = L1
            ELSE IF Len(L2) > 0
            THEN Has("start_foldartal_list") /\ value["start_foldartal_list"] = L2
            ELSE ~Has("start_foldartal_list")

C6_Witness ==
    /\ Done
    /\ opts.theme = Sami
    /\ opts.sami_new_squad2_starting_foldartal
    /\ opts.sami_new_squad2_starting_foldartals = <<"x">>
    /\ opts.start_foldartals = <<"y", "x">>
    /\ value["start_foldartal_list"] = <<"x">>

\* The tokens of an award string, read off the string itself: a piece runs
\* from i to j (empty when j = i - 1) between two commas or string ends.
IsPiece(s, i, j) ==
    /\ (i = 1 \/ s[i - 1] = Comma)
    /\ (j = Len(s) \/ s[j + 1] = Comma)
    /\ \A k \in i..j : s[k] # Comma
Pieces(s) == {p \in (1..(Len(s) + 1)) \X (0..Len(s)) : p[2] >= p[1] - 1 /\ IsPiece(s, p[1], p[2])}
\* the piece is the word w, blanks around it aside
PieceIs(s, p, w) ==
    \E k \in p[1]..p[2] : s[k] = w /\ \A l \in (p[1]..p[2]) \ {k} : s[l] = Blank
RecognizedTokens ==
    {"hot_water", "shield", "ingot", "hope", "random", "key", "dice", "ticket", "idea"}
CanonicalKey(w) == IF w = "idea" THEN "ideas" ELSE w
\* the pieces that hold something other than blanks and are no recognized token
UnknownPieces(s) ==
    {p \in Pieces(s) : /\ \E k \in p[1]..p[2] : s[k] # Blank
                       /\ \A w \in RecognizedTokens : ~PieceIs(s, p, w)}
\* the piece without the blanks at its two ends
Trimmed(s, p) ==
    LET a == CHOOSE k \in p[1]..p[2] : s[k] # Blank /\ \A l \in p[1]..(k - 1) : s[l] = Blank
        b == CHOOSE k \in p[1]..p[2] : s[k] # Blank /\ \A l \in (k + 1)..p[2] : s[l] = Blank
    IN  SubSeq(s, a, b)
AwardWarnings == {i \in 1..Len(warnings) : Len(warnings[i]) = 2}

\* C7: in mode 4 with an award string the call never fails on account of it,
\* and collectible_mode_start_list holds exactly the canonical keys of the
\* recognized tokens of the string, each with the value true; every token that
\* is not recognized is logged and left out; with no recognized token the key
\* is absent.
C7_CollectibleStartAwards ==
    (opts.mode = 4 /\ IsSome(opts.collectible_start_awards)) =>
        /\ ~Bailed
        /\ Done =>
            LET s == opts.collectible_start_awards[1]
                keys == {CanonicalKey(w) : w \in {x \in RecognizedTokens :
                                                    \E p \in Pieces(s) : PieceIs(s, p, x)}}
            IN  /\ IF keys = {}
                   THEN ~Has("collectible_mode_start_list")
                   ELSE /\ Has("collectible_mode_start_list")
                        /\ DOMAIN value["collectible_mode_start_list"] = keys
                        /\ \A k \in keys : value["collectible_mode_start_list"][k] = TRUE
                /\ \A p \in UnknownPieces(s) : Logged(WarnAward(Trimmed(s, p)))
                /\ Cardinality(AwardWarnings) = Cardinality(UnknownPieces(s))

C7_Witness ==
    /\ Done
    /\ opts.mode = 4
    /\ opts.collectible_start_awards = Some(TestAwards2)
    /\ DOMAIN value["collectible_mode_start_list"] = {"hot_water", "shield"}
    /\ Logged(WarnAward(<<"invalid">>))

InvestmentDetailKeys ==
    {"investments_count", "investment_with_more_score", "stop_when_investment_full"}

\* C8: with disable_investment a returned map has investment_enabled = false
\* and no other investment key, whatever the other investment flags are;
\* without it the map has investment_enabled = true, investment_with_more_score
\* as given, stop_when_investment_full the negation of
\* no_stop_when_investment_full, and investments_count exactly when supplied.
C8_InvestmentGroup ==
    Done =>
        /\ Has("investment_enabled")
        /\ IF opts.disable_investment
           THEN /\ value["investment_enabled"] = FALSE
                /\ InvestmentDetailKeys \cap DOMAIN value = {}
           ELSE /\ value["investment_enabled"] = TRUE
                /\ Has("investment_with_more_score")
                /\ value["investment_with_more_score"] = opts.investment_with_more_score
                /\ Has("stop_when_investment_full")
                /\ value["stop_when_investment_full"] = ~opts.no_stop_when_investment_full
                /\ Has("investments_count") <=> IsSome(opts.investments_count)
                /\ IsSome(opts.investments_count)
                       => value["investments_count"] = opts.investments_count[1]

C8_Witness ==
    /\ Done
    /\ opts.disable_investment
    /\ IsSome(opts.investments_count)
    /\ opts.investment_with_more_score
    /\ opts.no_stop_when_investment_full
    /\ value["investment_enabled"] = FALSE

\* the call on o ends as the call in progress has ended
SameOutcome(o) ==
    LET r == into_parameters_no_context(o)
    IN  /\ r.ok = Done
        /\ r.err = err
        /\ Done => r.value = value

\* C9: under Phantom a returned map has no difficulty key, and a supplied
\* difficulty is logged and changes neither the outcome nor the map; under the
\* other themes the difficulty key is present exactly when a difficulty was
\* supplied, with that value.
C9_DifficultyThemeGated ==
    (Done \/ Bailed) =>
        IF opts.theme = Phantom
        THEN /\ Done => ~Has("difficulty")
             /\ (Done /\ IsSome(opts.difficulty)) => Logged(WarnDifficulty)
             /\ SameOutcome([opts EXCEPT !.difficulty = None])
        ELSE Done => /\ Has("difficulty") <=> IsSome(opts.difficulty)
                     /\ IsSome(opts.difficulty)
                            => value["difficulty"] = opts.difficulty[1]

C9_Witness ==
    /\ Done
    /\ opts.theme = Phantom
    /\ opts.difficulty = Some(15)
    /\ Logged(WarnDifficulty)
    /\ ~Has("difficulty")

CollectibleKeys ==
    {"collectible_mode_squad", "collectible_mode_shopping", "collectible_mode_start_list"}
MonthlyKeys == {"monthly_squad_auto_iterate", "monthly_squad_check_comms"}
DeepKeys == {"deep_exploration_auto_iterate"}

\* the options that differ from o in the flags of a group whose mode is not o's
OtherModeFlagChanges(o) ==
    (IF o.mode # 4
     THEN {[o EXCEPT !.collectible_squad = s, !.collectible_shopping = f,
                     !.collectible_start_awards = a] :
              s \in OptStr, f \in BOOLEAN, a \in FewAwards}
     ELSE {})
    \cup (IF o.mode # 6
          THEN {[o EXCEPT !.monthly_squad_auto_iterate = a,
                          !.monthly_squad_check_comms = k] : a \in BOOLEAN, k \in BOOLEAN}
          ELSE {})
    \cup (IF o.mode # 7
          THEN {[o EXCEPT !.deep_exploration_auto_iterate = d] : d \in BOOLEAN}
          ELSE {})

\* C10: the collectible keys appear only in mode 4, the monthly squad keys only
\* in mode 6, the deep exploration key only in mode 7, and changing the flags of
\* a group while another mode is active changes neither success or failure nor
\* the returned map.
C10_ModeGatedGroups ==
    /\ Done => /\ opts.mode # 4 => CollectibleKeys \cap DOMAIN value = {}
               /\ opts.mode # 6 => MonthlyKeys \cap DOMAIN value = {}
               /\ opts.mode # 7 => DeepKeys \cap DOMAIN value = {}
    /\ (Done \/ Bailed) => \A o \in OtherModeFlagChanges(opts) : SameOutcome(o)

C10_Witness ==
    /\ Done
    /\ opts.mode = 6
    /\ opts.collectible_shopping
    /\ IsSome(opts.collectible_squad)
    /\ IsSome(opts.collectible_start_awards)
    /\ Logged(WarnCollectible)
    /\ CollectibleKeys \cap DOMAIN value = {}
    /\ MonthlyKeys \subseteq DOMAIN value

ThemeNames == <<"Phantom", "Mizuki", "Sami", "Sarkaz", "JieGarden">>
\* the key k is present exactly when the option was supplied, with its value
PresentIffSupplied(k, opt) ==
    /\ Has(k) <=> IsSome(opt)
    /\ IsSome(opt) => value[k] = opt[1]

\* C11: every returned map has theme (the theme's name), mode,
\* stop_at_final_boss, stop_when_deposit_full, stop_at_max_level, use_support
\* and use_nonfriend_support, each equal to its input, under every theme and
\* mode; squad, core_char, roles and start_count are each present exactly when
\* the option was supplied, with the supplied value.
C11_BaseFields ==
    Done =>
        /\ {"theme", "mode", "stop_at_final_boss", "stop_when_deposit_full",
            "stop_at_max_level", "use_support", "use_nonfriend_support"}
               \subseteq DOMAIN value
        /\ value["theme"] = ThemeNames[opts.theme + 1]
        /\ value["mode"] = opts.mode
        /\ value["stop_at_final_boss"] = opts.stop_at_final_boss
        /\ value["stop_when_deposit_full"] = opts.stop_when_deposit_full
        /\ value["stop_at_max_level"] = opts.stop_when_level_max
        /\ value["use_support"] = opts.use_support
        /\ value["use_nonfriend_support"] = opts.use_nonfriend_support
        /\ PresentIffSupplied("squad", opts.squad)
        /\ PresentIffSupplied("core_char", opts.core_char)
        /\ PresentIffSupplied("roles", opts.roles)
        /\ PresentIffSupplied("start_count", opts.start_count)

C11_Witness ==
    /\ Done
    /\ opts.theme = JieGarden
    /\ value["theme"] = "JieGarden"
    /\ IsSome(opts.squad)
    /\ ~IsSome(opts.roles)
    /\ ~IsSome(opts.start_count)
    /\ Has("squad")
    /\ ~Has("roles")
    /\ ~Has("start_count")
    /\ opts.stop_when_level_max
    /\ value["stop_at_max_level"] = TRUE

\* C12: with start_with_elite_two a returned map has start_with_elite_two =
\* true and only_start_with_elite_two equal to its flag; without it neither key
\* appears, even if only_start_with_elite_two was set.
C12_EliteStart ==
    Done =>
        IF opts.start_with_elite_two
        THEN /\ Has("start_with_elite_two")
             /\ value["start_with_elite_two"] = TRUE
             /\ Has("only_start_with_elite_two")
             /\ value["only_start_with_elite_two"] = opts.only_start_with_elite_two
        ELSE /\ ~Has("start_with_elite_two")
             /\ ~Has("only_start_with_elite_two")

C12_Witness ==
    /\ Done
    /\ ~opts.start_with_elite_two
    /\ opts.only_start_with_elite_two
    /\ ~Has("start_with_elite_two")
    /\ ~Has("only_start_with_elite_two")

SamiKeys ==
    {"use_foldartal", "first_floor_foldartal", "start_foldartal_list"} \cup ParadigmKeys
ThemeKeys ==
    SamiKeys \cup {"refresh_trader_with_dice", "start_with_seed", "find_playTime_target"}

\* C13: in a returned map refresh_trader_with_dice is present exactly under
\* Mizuki and use_foldartal exactly under Sami; the foldartal list keys and the
\* paradigm keys appear only under Sami, start_with_seed only under Sarkaz with
\* mode 1, find_playTime_target only under JieGarden with mode 20001; Phantom,
\* Sarkaz off mode 1 and JieGarden off mode 20001 add none of these keys,
\* whatever flags were supplied.
C13_ThemeKeysConfined ==
    Done =>
        /\ Has("refresh_trader_with_dice") <=> opts.theme = Mizuki
        /\ Has("use_foldartal") <=> opts.theme = Sami
        /\ opts.theme # Sami => SamiKeys \cap DOMAIN value = {}
        /\ Has("start_with_seed") => (opts.theme = Sarkaz /\ opts.mode = 1)
        /\ Has("find_playTime_target") => (opts.theme = JieGarden /\ opts.mode = 20001)
        /\ (\/ opts.theme = Phantom
            \/ (opts.theme = Sarkaz /\ opts.mode # 1)
            \/ (opts.theme = JieGarden /\ opts.mode # 20001))
               => ThemeKeys \cap DOMAIN value = {}

C13_Witness ==
    /\ Done
    /\ opts.theme = Sarkaz
    /\ opts.mode = 4
    /\ opts.start_with_seed
    /\ IsSome(opts.seed)
    /\ IsSome(opts.find_playtime_target)
    /\ opts.use_foldartal
    /\ opts.refresh_trader_with_dice
    /\ Len(opts.start_foldartals) > 0
    /\ ThemeKeys \cap DOMAIN value = {}

\* the theme and the mode do not go together, read off the options
IncompatibleMode(o) ==
    \/ o.mode \notin LegalModes
    \/ (o.mode = 5 /\ o.theme # Sami)
    \/ (o.mode = 20001 /\ o.theme # JieGarden)

\* C15: the theme/mode check is the first thing a call does: while it has not
\* run no field is in the map and nothing is logged, and a call it rejects ends
\* with an empty map and an empty log; a map with a field or a log with a
\* warning belongs to a call whose theme and mode passed the check.
C15_CheckModeFirst ==
    /\ pc = "check_mode" => (DOMAIN value = {} /\ Len(warnings) = 0)
    /\ (IncompatibleMode(opts) /\ pc # "check_mode")
           => (Bailed /\ DOMAIN value = {} /\ Len(warnings) = 0)
    /\ (DOMAIN value # {} \/ Len(warnings) > 0)
           => (pc # "check_mode" /\ ~IncompatibleMode(opts))

C15_Witness ==
    /\ Bailed
    /\ opts.theme = Phantom
    /\ opts.mode = 5
    /\ opts.start_with_seed
    /\ IsSome(opts.difficulty)
    /\ IsSome(opts.collectible_start_awards)
    /\ DOMAIN value = {}
    /\ Len(warnings) = 0

\* C16: a call in which only the theme is chosen, every other option at its
\* default (mode 0, the monthly squad and deep exploration flags true, the rest
\* unset), logs no warning.
C16_DefaultsLogNothing ==
    opts = Default(opts.theme, 0) => Len(warnings) = 0

\* the inputs the claim lists as failing, read off the options
ListedAsFailing(o) ==
    \/ (o.mode = 5 /\ o.theme # Sami)
    \/ (o.mode = 20001 /\ o.theme # JieGarden)
    \/ o.mode \notin LegalModes
    \/ (o.theme = Sami /\ o.mode = 5 /\ Len(o.expected_collapsal_paradigms) = 0)
    \/ (o.theme = Sarkaz /\ o.mode = 1 /\ o.start_with_seed /\ ~IsSome(o.seed))
    \/ (o.theme = JieGarden /\ o.mode = 20001
        /\ (~IsSome(o.find_playtime_target)
            \/ o.find_playtime_target[1] \notin {1, 2, 3}))

====
